---- MODULE Spec2Model ----
(***************************************************************************)
(* Model of src/esp8266/config.h: the header's fourteen lines, the way a   *)
(* C++ build consumes them (preprocessing and declaration, one translation *)
(* unit after the other, then linking), and the objects the header         *)
(* introduces into the running program.                                    *)
(***************************************************************************)
EXTENDS Integers, Sequences, FiniteSets, TLC

\* ------------------------------------------------------------------ bounds
\* number of translation units of one build
MaxTU == 2
\* number of #include "config.h" one translation unit may contain
MaxIncludes == 2

\* ------------------------------------------------------- types of the file
\* const char*  : pointer to const char, the pointer itself is not const
CharPtr == [base |-> "char", baseConst |-> TRUE, pointer |-> TRUE, pointerConst |-> FALSE]
\* const unsigned long : a const-qualified integer object
ULong == [base |-> "unsigned long", baseConst |-> TRUE, pointer |-> FALSE, pointerConst |-> FALSE]
NoType == [base |-> "none", baseConst |-> FALSE, pointer |-> FALSE, pointerConst |-> FALSE]

\* width of unsigned long on the ESP8266 (ILP32)
ULONG_BITS == 32
\* width of one limb of the model's number representation
LIMB_BITS == 16

NUL == "<NUL>"
\* the null pointer; every array a pointer can point to holds at least NUL
NULL == <<>>

StrLit(chars) == [kind |-> "str", text |-> chars]
IntLit(chars) == [kind |-> "int", text |-> chars]
Ident(name) == [kind |-> "id", text |-> <<name>>]
NoTok == [kind |-> "none", text |-> <<>>]

Directive(op, name) == [op |-> op, name |-> name, type |-> NoType, tok |-> NoTok]
Define(name, tok) == [op |-> "define", name |-> name, type |-> NoType, tok |-> tok]
Var(type, name, tok) == [op |-> "var", name |-> name, type |-> type, tok |-> tok]
Blank == Directive("blank", "")

\* ------------------------------------------------------------- the header
\* faulty variant for C9: the heartbeat literal written past the 32-bit range
HeaderWideLiteral ==
  << Directive("ifndef", "CONFIG_H"),
     Define("CONFIG_H", NoTok),
     Blank,
     Var(CharPtr, "WIFI_SSID", StrLit(<<"\"", "Y", "O", "U", "R", "_", "W", "I", "F", "I", "_", "S", "S", "I", "D", "\"">>)),
     Var(CharPtr, "WIFI_PASSWORD", StrLit(<<"\"", "Y", "O", "U", "R", "_", "W", "I", "F", "I", "_", "P", "A", "S", "S", "W", "O", "R", "D", "\"">>)),
     Var(CharPtr, "SERVER_URL", StrLit(<<"\"", "h", "t", "t", "p", "s", ":", "/", "/", "a", "p", "i", ".", "a", "n", "g", "l", "e", "r", ".", "c", "o", "m", ".", "u", "a", "\"">>)),
     Var(CharPtr, "DEVICE_TOKEN", StrLit(<<"\"", "Y", "O", "U", "R", "_", "D", "E", "V", "I", "C", "E", "_", "T", "O", "K", "E", "N", "\"">>)),
     Blank,
     Var(ULong, "HEARTBEAT_INTERVAL", IntLit(<<"4", "2", "9", "4", "9", "9", "7", "2", "9", "6">>)),
     Var(ULong, "WIFI_TIMEOUT", IntLit(<<"3", "0", "0", "0", "0">>)),
     Blank,
     Define("DEBUG_SERIAL", IntLit(<<"1">>)),
     Blank,
     Directive("endif", "") >>

\* faulty variant for C2: the device token left empty
HeaderEmptyToken ==
  [i \in 1..14 |-> IF i = 7 THEN Var(CharPtr, "DEVICE_TOKEN", StrLit(<<"\"", "\"">>))
                   ELSE IF i = 9 THEN Var(ULong, "HEARTBEAT_INTERVAL", IntLit(<<"3", "0", "0", "0", "0">>))
                   ELSE HeaderWideLiteral[i]]

\* faulty variant for C3: the password declaration repeats the name WIFI_SSID
HeaderDuplicateName ==
  [i \in 1..14 |-> IF i = 5 THEN Var(CharPtr, "WIFI_SSID", HeaderWideLiteral[5].tok)
                   ELSE IF i = 9 THEN Var(ULong, "HEARTBEAT_INTERVAL", IntLit(<<"3", "0", "0", "0", "0">>))
                   ELSE HeaderWideLiteral[i]]

\* faulty variant for C4: the timeout initialised from the heartbeat constant
HeaderDependent ==
  [i \in 1..14 |-> IF i = 10 THEN Var(ULong, "WIFI_TIMEOUT", Ident("HEARTBEAT_INTERVAL"))
                   ELSE IF i = 9 THEN Var(ULong, "HEARTBEAT_INTERVAL", IntLit(<<"3", "0", "0", "0", "0">>))
                   ELSE HeaderWideLiteral[i]]

\* faulty variant for C5: a debug level instead of a flag
HeaderDebugLevel ==
  [i \in 1..14 |-> IF i = 12 THEN Define("DEBUG_SERIAL", IntLit(<<"2">>))
                   ELSE IF i = 9 THEN Var(ULong, "HEARTBEAT_INTERVAL", IntLit(<<"3", "0", "0", "0", "0">>))
                   ELSE HeaderWideLiteral[i]]

\* faulty variant for C6: the endpoint written with a trailing path separator
HeaderTrailingSlash ==
  [i \in 1..14 |-> IF i = 6 THEN Var(CharPtr, "SERVER_URL", StrLit(<<"\"", "h", "t", "t", "p", "s", ":", "/", "/", "a", "p", "i", ".", "a", "n", "g", "l", "e", "r", ".", "c", "o", "m", ".", "u", "a", "/", "\"">>))
                   ELSE IF i = 9 THEN Var(ULong, "HEARTBEAT_INTERVAL", IntLit(<<"3", "0", "0", "0", "0">>))
                   ELSE HeaderWideLiteral[i]]

\* config.h, line by line
Header ==
  << Directive("ifndef", "CONFIG_H"),
     Define("CONFIG_H", NoTok),
     Blank,
     Var(CharPtr, "WIFI_SSID", StrLit(<<"\"", "Y", "O", "U", "R", "_", "W", "I", "F", "I", "_", "S", "S", "I", "D", "\"">>)),
     Var(CharPtr, "WIFI_PASSWORD", StrLit(<<"\"", "Y", "O", "U", "R", "_", "W", "I", "F", "I", "_", "P", "A", "S", "S", "W", "O", "R", "D", "\"">>)),
     Var(CharPtr, "SERVER_URL", StrLit(<<"\"", "h", "t", "t", "p", "s", ":", "/", "/", "a", "p", "i", ".", "a", "n", "g", "l", "e", "r", ".", "c", "o", "m", ".", "u", "a", "\"">>)),
     Var(CharPtr, "DEVICE_TOKEN", StrLit(<<"\"", "Y", "O", "U", "R", "_", "D", "E", "V", "I", "C", "E", "_", "T", "O", "K", "E", "N", "\"">>)),
     Blank,
     Var(ULong, "HEARTBEAT_INTERVAL", IntLit(<<"3", "0", "0", "0", "0">>)),
     Var(ULong, "WIFI_TIMEOUT", IntLit(<<"3", "0", "0", "0", "0">>)),
     Blank,
     Define("DEBUG_SERIAL", IntLit(<<"1">>)),
     Blank,
     Directive("endif", "") >>

TextNames == {"WIFI_SSID", "WIFI_PASSWORD", "SERVER_URL", "DEVICE_TOKEN"}
TimingNames == {"HEARTBEAT_INTERVAL", "WIFI_TIMEOUT"}
ConstantNames == TextNames \cup TimingNames
FlagNames == {"DEBUG_SERIAL"}
AllNames == ConstantNames \cup FlagNames

\* ------------------------------------------------- the language's meaning
\* an object whose own type is const-qualified cannot be assigned
TopLevelConst(type) == IF type.pointer THEN type.pointerConst ELSE type.baseConst

\* a namespace-scope object has internal linkage only when it is const
Linkage(type) == IF TopLevelConst(type) THEN "internal" ELSE "external"

DigitValue(c) ==
  CASE c = "0" -> 0 [] c = "1" -> 1 [] c = "2" -> 2 [] c = "3" -> 3 [] c = "4" -> 4
    [] c = "5" -> 5 [] c = "6" -> 6 [] c = "7" -> 7 [] c = "8" -> 8 [] c = "9" -> 9

\* numbers are held as little-endian sequences of LIMB_BITS-bit limbs, so that
\* a literal wider than unsigned long keeps its written value until converted
LimbBase == 2 ^ LIMB_BITS
ULONG_LIMBS == ULONG_BITS \div LIMB_BITS

RECURSIVE MulAdd(_, _, _)
\* limbs * m + c
MulAdd(limbs, m, c) ==
  IF limbs = <<>> THEN (IF c = 0 THEN <<>> ELSE <<c>>)
  ELSE LET x == Head(limbs) * m + c
       IN <<x % LimbBase>> \o MulAdd(Tail(limbs), m, x \div LimbBase)

RECURSIVE ParseInt(_)
\* the number a decimal literal denotes
ParseInt(chars) ==
  IF chars = <<>> THEN <<>>
  ELSE MulAdd(ParseInt(SubSeq(chars, 1, Len(chars) - 1)), 10, DigitValue(chars[Len(chars)]))

LimbAt(n, i) == IF i <= Len(n) THEN n[i] ELSE 0
SameNumber(a, b) == \A i \in 1..(Len(a) + Len(b)) : LimbAt(a, i) = LimbAt(b, i)
IsZero(n) == \A i \in 1..Len(n) : n[i] = 0

\* conversion of an integer to unsigned long: the low ULONG_BITS bits
ToUnsignedLong(n) == [i \in 1..ULONG_LIMBS |-> LimbAt(n, i)]

\* the array a string literal denotes: the characters between the quotes and NUL
StringLiteralValue(chars) == Append(SubSeq(chars, 2, Len(chars) - 1), NUL)

RECURSIVE Strlen(_)
\* number of characters before the first NUL
Strlen(arr) == IF arr = <<>> \/ Head(arr) = NUL THEN 0 ELSE 1 + Strlen(Tail(arr))

LiteralValue(tok) ==
  CASE tok.kind = "str" -> StringLiteralValue(tok.text)
    [] tok.kind = "int" -> ParseInt(tok.text)
    [] OTHER -> NULL

Declared(decls, name) == \E i \in 1..Len(decls) : decls[i].name = name
DeclOf(decls, name) == decls[CHOOSE i \in 1..Len(decls) : decls[i].name = name]

\* value of an initializer in the unit's environment: a literal, a macro that
\* expands to a literal, or an object already declared
Eval(tok, macros, decls) ==
  IF tok.kind # "id" THEN LiteralValue(tok)
  ELSE IF tok.text[1] \in DOMAIN macros THEN LiteralValue(macros[tok.text[1]])
  ELSE IF Declared(decls, tok.text[1]) THEN DeclOf(decls, tok.text[1]).value
  ELSE NULL

\* the value an object of the given type is initialised with
InitValue(type, v) == IF type.pointer THEN v ELSE ToUnsignedLong(v)

\* faulty variant for C8: the guard test always lets the body through
IfndefTakenUnguarded(name, macros) == TRUE

\* #ifndef name : the body is processed when name is not a defined macro
IfndefTaken(name, macros) == name \notin DOMAIN macros

NoMacros == [n \in {} |-> NoTok]
NewUnit == [macros |-> NoMacros, decls |-> <<>>, done |-> 0]

\* -------------------------------------------------------------------- state
VARIABLES
  hdr,       \* the header file the build reads
  edited,    \* the name whose definition was replaced in hdr, or "none"
  units,     \* the translation units of the build, in compilation order
  compiling, \* TRUE while the last unit of units is being compiled
  pc,        \* line of hdr the preprocessor is at, 0 outside the header
  skipping,  \* TRUE inside the body of a failed #ifndef
  diag,      \* compiler diagnostics: "none" or "redefinition"
  link,      \* "none", "ok" or "multiple definition"
  mem        \* objects of the running program: <<unit, name>> -> value

vars == <<hdr, edited, units, compiling, pc, skipping, diag, link, mem>>

Cur == Len(units)

InitRest ==
  /\ units = <<>>
  /\ compiling = FALSE
  /\ pc = 0
  /\ skipping = FALSE
  /\ diag = "none"
  /\ link = "none"
  /\ mem = <<>>

Init ==
  /\ hdr = Header
  /\ edited = "none"
  /\ InitRest

\* the compiler starts on the next source file of the build
StartUnit ==
  /\ link = "none"
  /\ ~compiling
  /\ Cur < MaxTU
  /\ units' = Append(units, NewUnit)
  /\ compiling' = TRUE
  /\ UNCHANGED <<hdr, edited, pc, skipping, diag, link, mem>>

\* the unit being compiled reaches an #include "config.h"
Include ==
  /\ compiling
  /\ pc = 0
  /\ units[Cur].done < MaxIncludes
  /\ pc' = 1
  /\ UNCHANGED <<hdr, edited, units, compiling, skipping, diag, link, mem>>

\* the effect of one line of the header on the unit
LineEffect(u, line) ==
  CASE line.op = "define" -> [u EXCEPT !.macros = (line.name :> line.tok) @@ u.macros]
    [] line.op = "var" ->
         [u EXCEPT !.decls = Append(u.decls,
            [name |-> line.name, type |-> line.type,
             value |-> InitValue(line.type, Eval(line.tok, u.macros, u.decls))])]
    [] OTHER -> u

\* the preprocessor and compiler consume one line of the header
ProcessLine ==
  /\ compiling
  /\ pc > 0
  /\ LET line == hdr[pc]
         u == units[Cur]
         after == IF skipping THEN u ELSE LineEffect(u, line)
         atEnd == pc = Len(hdr)
     IN /\ units' = [units EXCEPT ![Cur] =
                       IF atEnd THEN [after EXCEPT !.done = u.done + 1] ELSE after]
        /\ skipping' = IF skipping THEN line.op # "endif"
                       ELSE line.op = "ifndef" /\ ~IfndefTaken(line.name, u.macros)
        /\ diag' = IF ~skipping /\ line.op = "var" /\ Declared(u.decls, line.name)
                   THEN "redefinition" ELSE diag
        /\ pc' = IF atEnd THEN 0 ELSE pc + 1
  /\ UNCHANGED <<hdr, edited, compiling, link, mem>>

\* the unit's source file ends; its object file is complete
EndUnit ==
  /\ compiling
  /\ pc = 0
  /\ compiling' = FALSE
  /\ UNCHANGED <<hdr, edited, units, pc, skipping, diag, link, mem>>

\* units that define name as a symbol visible to the linker
ExternalDefs(us, name) ==
  {t \in 1..Len(us) : \E i \in 1..Len(us[t].decls) :
      us[t].decls[i].name = name /\ Linkage(us[t].decls[i].type) = "external"}

Objects(us) == {<<t, n>> \in (1..Len(us)) \X ConstantNames : Declared(us[t].decls, n)}

\* the object files are linked; a symbol defined by two of them is an error,
\* otherwise the program starts with every object holding its initial value
Link ==
  /\ link = "none"
  /\ ~compiling
  /\ Cur > 0
  /\ diag = "none"
  /\ IF \E n \in ConstantNames : Cardinality(ExternalDefs(units, n)) > 1
     THEN /\ link' = "multiple definition"
          /\ mem' = mem
     ELSE /\ link' = "ok"
          /\ mem' = [o \in Objects(units) |-> DeclOf(units[o[1]].decls, o[2]).value]
  /\ UNCHANGED <<hdr, edited, units, compiling, pc, skipping, diag>>

\* arrays a statement of the program can make a char pointer point to
OtherText == <<"x", NUL>>
AssignValues == {NULL, OtherText}

\* a statement of the running program assigns to an object of the header;
\* the language accepts it only for an object that is not const
Assign ==
  /\ link = "ok"
  /\ \E o \in DOMAIN mem, v \in AssignValues :
       /\ ~TopLevelConst(DeclOf(units[o[1]].decls, o[2]).type)
       /\ mem' = [mem EXCEPT ![o] = v]
  /\ UNCHANGED <<hdr, edited, units, compiling, pc, skipping, diag, link>>

Next == StartUnit \/ Include \/ ProcessLine \/ EndUnit \/ Link \/ Assign

Spec == Init /\ [][Next]_vars

\* ------------------------------------------- the header with one value replaced
\* a replacement value of the same form as the one written in the header
AltTok(name) ==
  IF name \in TextNames THEN StrLit(<<"\"", "n", "e", "w", "\"">>)
  ELSE IF name \in TimingNames THEN IntLit(<<"6", "0", "0", "0", "0">>)
  ELSE IntLit(<<"0">>)

\* the header h with the value of name's definition replaced by tok
ReplaceTok(h, name, tok) ==
  [i \in 1..Len(h) |-> IF h[i].name = name THEN [h[i] EXCEPT !.tok = tok] ELSE h[i]]

InitEdit ==
  /\ \E n \in AllNames : hdr = ReplaceTok(Header, n, AltTok(n)) /\ edited = n
  /\ InitRest

SpecEdit == InitEdit /\ [][Next]_vars

\* ------------------------------------------------------------ observations
Units == 1..Len(units)
DeclNames(u) == {u.decls[i].name : i \in 1..Len(u.decls)}
\* macros that expand to a value
ValueMacros(u) == {m \in DOMAIN u.macros : u.macros[m].kind # "none"}
ExposedNames(u) == DeclNames(u) \cup ValueMacros(u)
Defines(u, name) == name \in ExposedNames(u)
ValueIn(u, name) ==
  IF name \in DOMAIN u.macros THEN LiteralValue(u.macros[name])
  ELSE DeclOf(u.decls, name).value

RECURSIVE CompileFrom(_, _, _)
\* a unit after lines i.. of header h, none of them skipped
CompileFrom(u, h, i) ==
  IF i > Len(h) THEN u ELSE CompileFrom(LineEffect(u, h[i]), h, i + 1)
\* the definitions one inclusion of h gives an empty unit
Once(h) == CompileFrom(NewUnit, h, 1)

\* the characters of a C string
CString(arr) == SubSeq(arr, 1, Strlen(arr))

\* ------------------------------------------------------------------ claims

\* C1: every constant of config.h still holds, in every state of a running
\* program that includes the header, the value given at its definition.
C1_NeverMutated ==
  link = "ok" =>
    \A o \in DOMAIN mem : mem[o] = DeclOf(units[o[1]].decls, o[2]).value

\* C2: each text constant is a non-null string of length at least 1 and each
\* timing constant is an integer strictly greater than 0.
C2_ValidValues ==
  \A t \in Units : \A i \in 1..Len(units[t].decls) :
    LET d == units[t].decls[i]
    IN /\ d.name \in TextNames =>
            d.type.pointer /\ d.value # NULL /\ Strlen(d.value) >= 1
       /\ d.name \in TimingNames =>
            ~d.type.pointer /\ ~IsZero(d.value)

C2_Witness ==
  \E t \in Units : units[t].done >= 1 /\ ConstantNames \subseteq DeclNames(units[t])

C4_Independent ==
  \A t \in Units : \A m \in AllNames \ {edited} :
    Defines(units[t], m) => ValueIn(units[t], m) = ValueIn(Once(Header), m)

C4_Witness ==
  \E t \in Units :
    /\ edited \in AllNames
    /\ units[t].done >= 1
    /\ ValueIn(units[t], edited) # ValueIn(Once(Header), edited)
    /\ \A m \in AllNames \ {edited} : Defines(units[t], m)

\* C5: DEBUG_SERIAL expands to an integer whose value is 0 or 1.
C5_DebugFlagBoolean ==
  \A t \in Units : "DEBUG_SERIAL" \in DOMAIN units[t].macros =>
    LET body == units[t].macros["DEBUG_SERIAL"]
    IN /\ body.kind = "int"
       /\ \/ SameNumber(LiteralValue(body), <<0>>)
          \/ SameNumber(LiteralValue(body), <<1>>)

C5_Witness ==
  \E t \in Units : "DEBUG_SERIAL" \in DOMAIN units[t].macros /\ units[t].done >= 1

Whitespace == {" ", "\t", "\n", "\r"}
\* position of the first "://" in s, 0 when there is none
SepAt(s) ==
  LET hits == {i \in 1..(Len(s) - 2) : s[i] = ":" /\ s[i + 1] = "/" /\ s[i + 2] = "/"}
  IN IF hits = {} THEN 0 ELSE CHOOSE i \in hits : \A j \in hits : i <= j
Scheme(s) == SubSeq(s, 1, SepAt(s) - 1)
AfterSep(s) == SubSeq(s, SepAt(s) + 3, Len(s))
\* the authority: what follows "://" up to the first "/"
Host(s) ==
  LET r == AfterSep(s)
      slashes == {i \in 1..Len(r) : r[i] = "/"}
  IN IF slashes = {} THEN r
     ELSE SubSeq(r, 1, (CHOOSE i \in slashes : \A j \in slashes : i <= j) - 1)
WellFormedBase(s) ==
  /\ SepAt(s) > 0
  /\ Scheme(s) # <<>>
  /\ Host(s) # <<>>
  /\ \A i \in 1..Len(s) : s[i] \notin Whitespace
  /\ s[Len(s)] # "/"

\* C6: SERVER_URL is a non-empty scheme, "://" and a non-empty host, with no
\* whitespace and no trailing path separator.
C6_ServerUrlWellFormed ==
  \A t \in Units : Declared(units[t].decls, "SERVER_URL") =>
    WellFormedBase(CString(DeclOf(units[t].decls, "SERVER_URL").value))

C6_Witness ==
  \E t \in Units :
    /\ Declared(units[t].decls, "SERVER_URL")
    /\ Len(Host(CString(DeclOf(units[t].decls, "SERVER_URL").value))) = 17

\* C7: when every unit of a build of several units includes config.h, each
\* of the six constants is defined at most once in the whole program.
C7_DefinedAtMostOnce ==
  (Len(units) >= 2 /\ \A t \in Units : units[t].done >= 1) =>
    \A n \in ConstantNames : Cardinality(ExternalDefs(units, n)) <= 1

\* C8: once a unit has processed the header, every later inclusion leaves
\* the unit's definitions as they were, and they are those of one inclusion.
C8_IncludeIdempotent ==
  /\ [](\A t \in Units : (units[t].done >= 1) =>
          /\ units[t].macros = Once(hdr).macros
          /\ units[t].decls = Once(hdr).decls)
  /\ [][\A t \in Units : (units[t].done >= 1) =>
          /\ units'[t].macros = units[t].macros
          /\ units'[t].decls = units[t].decls]_vars

C8_Witness ==
  \E t \in Units : units[t].done >= 2 /\ pc = 0 /\ ~skipping

\* the literal written for name in header h
WrittenTok(h, name) == h[CHOOSE i \in 1..Len(h) : h[i].name = name].tok

\* C9: each timing constant is stored in a 32-bit unsigned long without
\* wrap-around: the stored value is the written literal, 30000.
C9_NoWrapAround ==
  \A t \in Units : \A i \in 1..Len(units[t].decls) :
    LET d == units[t].decls[i]
    IN d.name \in TimingNames =>
         /\ Len(d.value) * LIMB_BITS = 32
         /\ \A k \in 1..Len(d.value) : d.value[k] \in 0..(LimbBase - 1)
         /\ ~IsZero(d.value)
         /\ SameNumber(d.value, ParseInt(WrittenTok(hdr, d.name).text))
         /\ SameNumber(d.value, <<30000>>)

C9_Witness ==
  \E t \in Units : TimingNames \subseteq DeclNames(units[t])

====
